---- MODULE Spec2Model ----
(***************************************************************************)
(* A model of the BelgaLogosID keypoint-matching logo detector:            *)
(*   src/lib/model.py          KeypointMatcher (registry, dedup, detect)   *)
(*   src/keypoint_matching.py  clustering and bounding-box estimation      *)
(*   src/lib/validation.py     overlap scoring and aggregate statistics    *)
(* OpenCV, scikit-learn and pandas are external: what they return is drawn *)
(* from small sets, what the repository does with it is translated.        *)
(* Python indices are 0-based and kept so (ic, il, cluster indices);       *)
(* sequences are 1-based, so list[i] is written list[i + 1].               *)
(***************************************************************************)
EXTENDS Integers, Sequences, FiniteSets, TLC

VARIABLES
    \* ---- KeypointMatcher (src/lib/model.py)
    templates,          \* self.templates
    labels,             \* self.labels
    registered,         \* history: the add_template calls made, in order
    pc,                 \* "idle" | "detect" | "returned" | "raised"
    error,              \* the exception that left the last call, "" if none
    keypoints,          \* finder output on the target image: keypoints
    descriptors,        \* finder output on the target image: descriptors
    ms_labels,          \* ms.labels_ of the mean-shift fit
    kp_clusters,        \* meanshift_keypoint_clusters: keypoint clusters
    ds_clusters,        \* meanshift_keypoint_clusters: descriptor clusters
    n_clusters,         \* detect_objects local
    n_labels,           \* detect_objects local
    ic,                 \* detect_objects: cluster loop index
    il,                 \* detect_objects: template loop index
    detected_objects,   \* detect_objects local, the returned list
    last,               \* history: the last (cluster, template) attempt
    rejected_in_cluster,\* history: the cluster of the last attempt has had
                        \* a candidate rejected by the overlap check
    \* ---- one get_matching_boundingbox call (src/keypoint_matching.py)
    box_args,           \* its arguments and what the libraries return in it
    box_result,         \* what it returned or raised
    \* ---- study_matches (src/lib/validation.py)
    metadata,           \* the ground-truth table, a sequence of rows
    vpc,                \* "start" | "loop" | "done" | "raised"
    verror,             \* the exception that left study_matches
    unique_images,      \* metadata["image_file"].unique()
    image_idx,          \* images of unique_images processed so far
    image_metadata,     \* the rows of the image processed last
    image_detected,     \* model.detect_objects on the image processed last
    correct_matches,    \* validate_detected_objects on the image processed last
    true_positives,
    actual_positives,
    false_positives,
    image_count,
    summary,            \* count_dict, the returned record
    tally,              \* history: per image processed, what was seen
    \* ---- one verify_non_overlapping call (src/lib/model.py)
    verify_args,        \* its arguments: detected_objects and new_object
    verify_result,      \* what it returned
    \* ---- repeated detect_objects calls with deterministic libraries
    oracle,             \* what matcher and homography estimator answer for
                        \* a template image, the same at every call
    remembered,         \* history: a completed call the caller kept: its
                        \* image, the registry at the time, its outcome
    between             \* history: the outcome of the last call on another
                        \* image completed since the remembered call

matcherVars == <<templates, labels, registered, pc, error, keypoints,
                 descriptors, ms_labels, kp_clusters, ds_clusters, n_clusters,
                 n_labels, ic, il, detected_objects, last, rejected_in_cluster>>

boxVars == <<box_args, box_result>>

valVars == <<metadata, vpc, verror, unique_images, image_idx, image_metadata,
             image_detected, correct_matches, true_positives, actual_positives,
             false_positives, image_count, summary, tally>>

overlapVars == <<verify_args, verify_result>>

repeatVars == <<oracle, remembered, between>>

vars == <<matcherVars, boxVars, valVars, overlapVars, repeatVars>>

\* ------------------------------------------------------------------------
\* Bounds of the model
\* ------------------------------------------------------------------------
MaxTemplates == 2        \* add_template calls per matcher
MaxTargetKeypoints == 2  \* keypoints the finder returns on a target image
MaxKeypoints == 4        \* keypoints clustered by one meanshift_keypoint_clusters
MaxRows == 3             \* rows of a ground-truth table
MaxDetections == 2       \* detections a model returns for one image
MaxCoord == 4            \* largest x of a box handed to verify_non_overlapping

\* ------------------------------------------------------------------------
\* Small helpers
\* ------------------------------------------------------------------------
SetMin(S) == CHOOSE x \in S : \A y \in S : x <= y
SetMax(S) == CHOOSE x \in S : \A y \in S : x >= y
Max2(a, b) == IF a >= b THEN a ELSE b
Min2(a, b) == IF a <= b THEN a ELSE b

\* ------------------------------------------------------------------------
\* src/lib/validation.py: rectangles.  A point is <<x, y>>, a rectangle is
\* <<x1, y1, x2, y2>> (r[0]..r[3] of the source are r[1]..r[4] here).
\* ------------------------------------------------------------------------
vertices_to_AABB(points) ==
    LET xs == {points[i][1] : i \in DOMAIN points}
        ys == {points[i][2] : i \in DOMAIN points}
    IN  <<SetMin(xs), SetMin(ys), SetMax(xs), SetMax(ys)>>

compute_rectangle_area(r) == (r[3] - r[1]) * (r[4] - r[2])

compute_rectangle_intersection(r1, r2) ==
    LET olx == Max2(0, Min2(r1[3], r2[3]) - Max2(r1[1], r2[1]))
        oly == Max2(0, Min2(r1[4], r2[4]) - Max2(r1[2], r2[2]))
    IN  olx * oly

\* ------------------------------------------------------------------------
\* Inputs: what the callers and the external libraries hand to the code
\* ------------------------------------------------------------------------
\* add_template arguments.  An image is its sequence of pixel bytes; the
\* second image is the brightness inverse of the first.
TemplateInputs ==
    { [label |-> "Adidas",  image |-> <<0, 200>>],
      [label |-> "Ferrari", image |-> <<255, 55>>] }

\* Thresholds detect_objects passes to get_matching_boundingbox.
MIN_MATCHES == 10
MIN_INLIERS == 10

\* len(matches) returned by matcher.match, around the threshold.  The
\* matcher is external: the count is not tied to the size of the modelled
\* cluster, whose keypoints stand for any number of keypoints.
MatchCounts == {MIN_MATCHES - 1, MIN_MATCHES}
\* mask.ravel().sum() of a found homography, around the threshold.
InlierCounts == {MIN_INLIERS - 1, MIN_INLIERS}

\* np.int32(dst): the template corners (0,0),(0,h-1),(w-1,h-1),(w-1,0) as
\* warped by a homography, four <<x, y>> vertices in that order.  The
\* coordinates stay in the range where the np.int32 products of
\* compute_rectangle_area and compute_rectangle_intersection do not wrap.
Quads ==
    { << <<0, 0>>, <<0, 2>>, <<4, 2>>, <<4, 0>> >>,   \* AABB <<0,0,4,2>>
      << <<3, 0>>, <<2, 2>>, <<5, 2>>, <<6, 0>> >>,   \* AABB <<2,0,6,2>>
      << <<1, 0>>, <<2, 2>>, <<5, 1>>, <<4, 0>> >>,   \* AABB <<1,0,5,2>>
      << <<0, 0>>, <<1, 4>>, <<8, 3>>, <<7, 0>> >> }  \* AABB <<0,0,8,4>>

\* cv2.findHomography(src_pts, dst_pts, cv2.RANSAC, 2) -> (M, mask).  A found
\* M is represented by the quad it warps the template corners to; its mask
\* by its number of inliers.  When no homography is found M is None and the
\* mask is, depending on the OpenCV build, None or an all-zero array.
HomographyResults ==
    { [M |-> [found |-> FALSE], mask |-> [kind |-> "None"]],
      [M |-> [found |-> FALSE], mask |-> [kind |-> "array", inliers |-> 0]] }
    \cup
    { [M |-> [found |-> TRUE, dst |-> q], mask |-> [kind |-> "array", inliers |-> k]]
        : q \in Quads, k \in InlierCounts }

\* finder.detectAndCompute on a template image (external): one keypoint per
\* pixel, described by the pixel's value.
TemplateFeatures(image) ==
    [keypoints   |-> [i \in DOMAIN image |-> [pt |-> <<i, 0>>]],
     descriptors |-> [i \in DOMAIN image |-> image[i]]]

\* finder.detectAndCompute on a target image with n keypoints (external):
\* index-aligned keypoints and descriptors; OpenCV gives no descriptors
\* (None, here <<>>) when it finds no keypoint.
TargetKeypoints(n) == [i \in 1..n |-> [pt |-> <<i, i>>]]
TargetDescriptors(n) == [i \in 1..n |-> [of |-> <<i, i>>]]

\* ms.labels_ of MeanShift(cluster_all=True).fit on n points (external):
\* every point gets the index of one of at most n cluster centres.
MeanShiftFits(n) == [1..n -> 0..(n - 1)]

\* ------------------------------------------------------------------------
\* src/keypoint_matching.py
\* ------------------------------------------------------------------------
KeypointSet(image, kps, dss) ==
    [image |-> image, keypoints |-> kps, descriptors |-> dss]

\* max(ms.labels_) raises ValueError on an empty sequence.
meanshift_keypoint_labels(kps, fit) ==
    IF Len(kps) = 0
    THEN [raised |-> TRUE, error |-> "ValueError"]
    ELSE [raised |-> FALSE, labels |-> fit,
          nclusters |-> SetMax({fit[i] : i \in DOMAIN fit}) + 1]

\* Faulty variant: the positions holding label i or a larger one.
np_where_at_least(lbls, i) ==
    SelectSeq([k \in 1..Len(lbls) |-> k], LAMBDA k : lbls[k] >= i)

\* d, = np.where(labels == i): the positions holding label i, ascending.
np_where(lbls, i) ==
    SelectSeq([k \in 1..Len(lbls) |-> k], LAMBDA k : lbls[k] = i)

\* array[d]: the elements at positions d, in the order of d.
TakeAt(array, d) == [p \in 1..Len(d) |-> array[d[p]]]

meanshift_keypoint_clusters(kps, dss, fit) ==
    LET r == meanshift_keypoint_labels(kps, fit)
    IN  IF r.raised THEN r
        ELSE [raised |-> FALSE,
              kp_clusters |-> [i \in 1..r.nclusters |->
                                  TakeAt(kps, np_where(r.labels, i - 1))],
              ds_clusters |-> [i \in 1..r.nclusters |->
                                  TakeAt(dss, np_where(r.labels, i - 1))]]

\* An optional argument is a set: {} is None, {v} is the value v.
Some(opt) == CHOOSE v \in opt : TRUE

\* H is findHomography's (M, mask).  mask.ravel() on a None mask raises
\* AttributeError.
build_bounding_box(H, min_inliers) ==
    IF min_inliers # {} /\ H.mask.kind = "None"
    THEN [kind |-> "Raise", error |-> "AttributeError"]
    ELSE IF min_inliers # {} /\ H.mask.inliers < Some(min_inliers)
    THEN [kind |-> "None"]
    ELSE IF ~H.M.found
    THEN [kind |-> "None"]
    ELSE [kind |-> "Quad", box |-> H.M.dst]

\* Faulty variant: the match threshold is strict.
get_matching_boundingbox_strict(matches, H, min_matches, min_inliers) ==
    IF matches > min_matches
    THEN [called |-> TRUE, out |-> build_bounding_box(H, min_inliers)]
    ELSE [called |-> FALSE, out |-> [kind |-> "None"]]

\* matches is len(matcher.match(...)); H is what findHomography returns
\* when it is called.  called records whether build_bounding_box ran.
get_matching_boundingbox(matches, H, min_matches, min_inliers) ==
    IF matches >= min_matches
    THEN [called |-> TRUE, out |-> build_bounding_box(H, min_inliers)]
    ELSE [called |-> FALSE, out |-> [kind |-> "None"]]

\* ------------------------------------------------------------------------
\* src/lib/model.py
\* ------------------------------------------------------------------------
DetectedObject(label, bounding_box) ==
    [label |-> label, bounding_box |-> bounding_box]

\* cv2.bitwise_not on 8-bit pixels.
bitwise_not(image) == [i \in DOMAIN image |-> 255 - image[i]]

RECURSIVE verify_from(_, _, _)
verify_from(objects, AABB1, k) ==
    IF k > Len(objects) THEN TRUE
    ELSE LET AABB2   == vertices_to_AABB(objects[k].bounding_box)
             overlap == compute_rectangle_intersection(AABB1, AABB2)
             area2   == compute_rectangle_area(AABB2)
         IN  \* overlap > 0.5*area2
             IF 2 * overlap > area2 THEN FALSE
             ELSE verify_from(objects, AABB1, k + 1)

\* Faulty variant: the candidate's own area as the denominator.
verify_non_overlapping_own_area(objects, new_object) ==
    LET AABB1 == vertices_to_AABB(new_object.bounding_box)
    IN  \A k \in DOMAIN objects :
            2 * compute_rectangle_intersection(
                    AABB1, vertices_to_AABB(objects[k].bounding_box))
                <= compute_rectangle_area(AABB1)

\* Faulty variant: the factor 0.5 is missing, overlap > area2.
verify_non_overlapping_whole_area(objects, new_object) ==
    LET AABB1 == vertices_to_AABB(new_object.bounding_box)
    IN  \A k \in DOMAIN objects :
            compute_rectangle_intersection(
                    AABB1, vertices_to_AABB(objects[k].bounding_box))
                <= compute_rectangle_area(vertices_to_AABB(objects[k].bounding_box))

\* Faulty variant: the smaller of the two areas as the denominator.
verify_non_overlapping_smaller_area(objects, new_object) ==
    LET AABB1 == vertices_to_AABB(new_object.bounding_box)
    IN  \A k \in DOMAIN objects :
            LET AABB2 == vertices_to_AABB(objects[k].bounding_box)
            IN  2 * compute_rectangle_intersection(AABB1, AABB2)
                    <= Min2(compute_rectangle_area(AABB1),
                            compute_rectangle_area(AABB2))

verify_non_overlapping(objects, new_object) ==
    verify_from(objects, vertices_to_AABB(new_object.bounding_box), 1)

\* The overlap dedup of detect_objects (model.py:120-123) run over a list:
\* each element is checked with verify_non_overlapping against the elements
\* accepted before it, and appended when it passes.
RECURSIVE dedup_from(_, _, _)
dedup_from(list, k, accepted) ==
    IF k > Len(list) THEN accepted
    ELSE IF verify_non_overlapping(accepted, list[k])
    THEN dedup_from(list, k + 1, Append(accepted, list[k]))
    ELSE dedup_from(list, k + 1, accepted)

OverlapDedup(list) == dedup_from(list, 1, <<>>)

NoAttempt == [verdict |-> "none"]

\* A number as Python holds it: its value and whether it is a numpy scalar.
PyInt(n) == [v |-> n, np |-> FALSE]
NoSummary == [kind |-> "none"]
Pending == [kind |-> "pending"]

BoxIdle ==
    /\ box_args = [matches |-> 0, H |-> [M |-> [found |-> FALSE],
                                         mask |-> [kind |-> "None"]],
                   min_matches |-> 0, min_inliers |-> {}]
    /\ box_result = Pending

ValIdle ==
    /\ metadata = <<>>
    /\ vpc = "start"
    /\ verror = ""
    /\ unique_images = <<>>
    /\ image_idx = 0
    /\ image_metadata = <<>>
    /\ image_detected = <<>>
    /\ correct_matches = <<>>
    /\ true_positives = PyInt(0)
    /\ actual_positives = PyInt(0)
    /\ false_positives = PyInt(0)
    /\ image_count = PyInt(0)
    /\ summary = NoSummary
    /\ tally = <<>>

MatcherIdle ==
    /\ templates = <<>>
    /\ labels = <<>>
    /\ registered = <<>>
    /\ pc = "idle"
    /\ error = ""
    /\ keypoints = <<>>
    /\ descriptors = <<>>
    /\ ms_labels = <<>>
    /\ kp_clusters = <<>>
    /\ ds_clusters = <<>>
    /\ n_clusters = 0
    /\ n_labels = 0
    /\ ic = 0
    /\ il = 0
    /\ detected_objects = <<>>
    /\ last = NoAttempt
    /\ rejected_in_cluster = FALSE

\* No verify_non_overlapping call under study.
OverlapIdle ==
    /\ verify_args = [detected_objects |-> <<>>,
                      new_object |-> DetectedObject("", <<>>)]
    /\ verify_result = Pending

NoAnswers == <<>>
NoCall == [kind |-> "none"]

\* No environment fixed and no call kept.
RepeatIdle ==
    /\ oracle = NoAnswers
    /\ remembered = NoCall
    /\ between = NoCall

Init == MatcherIdle /\ BoxIdle /\ ValIdle /\ OverlapIdle /\ RepeatIdle

\* The locals of a detect_objects call and the history kept about it.
passVars == <<keypoints, n_clusters, n_labels, ic, il, detected_objects, last,
              rejected_in_cluster>>

\* The clusters themselves are only handed to the external matcher (their
\* contents are checked under SpecCluster); Spec keeps their number.
clusterVars == <<descriptors, ms_labels, kp_clusters, ds_clusters>>

\* Faulty variant: the inverse image's entry is registered first.
add_template_entries_inverse_first(image) ==
    LET f1 == TemplateFeatures(image)
        inverse_image == bitwise_not(image)
        f2 == TemplateFeatures(inverse_image)
    IN  << KeypointSet(inverse_image, f2.keypoints, f2.descriptors),
           KeypointSet(image, f1.keypoints, f1.descriptors) >>

\* The two entries add_template appends for (label, image).
add_template_entries(image) ==
    LET f1 == TemplateFeatures(image)
        inverse_image == bitwise_not(image)
        f2 == TemplateFeatures(inverse_image)
    IN  << KeypointSet(image, f1.keypoints, f1.descriptors),
           KeypointSet(inverse_image, f2.keypoints, f2.descriptors) >>

\* Faulty variant: the registry is kept in label order, Adidas entries first.
add_template_label_order ==
    /\ pc = "idle"
    /\ Len(registered) < MaxTemplates
    /\ \E t \in TemplateInputs :
        /\ templates' = IF t.label = "Adidas"
                        THEN add_template_entries(t.image) \o templates
                        ELSE templates \o add_template_entries(t.image)
        /\ labels' = IF t.label = "Adidas"
                     THEN <<t.label, t.label>> \o labels
                     ELSE labels \o <<t.label, t.label>>
        /\ registered' = Append(registered, t)
    /\ UNCHANGED <<pc, error>>
    /\ UNCHANGED passVars
    /\ UNCHANGED <<clusterVars, boxVars, valVars>>
    /\ UNCHANGED <<overlapVars, repeatVars>>

\* Faulty variant: the new entries are put in front of the registry.
add_template_in_front ==
    /\ pc = "idle"
    /\ Len(registered) < MaxTemplates
    /\ \E t \in TemplateInputs :
        /\ templates' = add_template_entries(t.image) \o templates
        /\ labels' = <<t.label, t.label>> \o labels
        /\ registered' = Append(registered, t)
    /\ UNCHANGED <<pc, error>>
    /\ UNCHANGED passVars
    /\ UNCHANGED <<clusterVars, boxVars, valVars>>
    /\ UNCHANGED <<overlapVars, repeatVars>>

add_template ==
    /\ pc = "idle"
    /\ Len(registered) < MaxTemplates
    /\ \E t \in TemplateInputs :
        /\ templates' = templates \o add_template_entries(t.image)
        /\ labels' = labels \o <<t.label, t.label>>
        /\ registered' = Append(registered, t)
    /\ UNCHANGED <<pc, error>>
    /\ UNCHANGED passVars
    /\ UNCHANGED <<clusterVars, boxVars, valVars>>
    /\ UNCHANGED <<overlapVars, repeatVars>>

\* Faulty variant: the accepted list is kept from one call to the next.
detect_objects_begin_keeps_list ==
    /\ pc = "idle"
    /\ \E n \in 0..MaxTargetKeypoints : \E fit \in MeanShiftFits(n) :
        LET r == meanshift_keypoint_clusters(TargetKeypoints(n),
                                             TargetDescriptors(n), fit)
        IN  /\ keypoints' = TargetKeypoints(n)
            /\ IF r.raised
               THEN /\ pc' = "raised"
                    /\ error' = r.error
                    /\ n_clusters' = 0
                    /\ n_labels' = 0
               ELSE /\ pc' = "detect"
                    /\ error' = ""
                    /\ n_clusters' = Len(r.kp_clusters)
                    /\ n_labels' = Len(labels)
    /\ ic' = 0
    /\ il' = 0
    /\ detected_objects' = detected_objects
    /\ last' = NoAttempt
    /\ rejected_in_cluster' = FALSE
    /\ UNCHANGED <<templates, labels, registered>>
    /\ UNCHANGED <<clusterVars, boxVars, valVars>>
    /\ UNCHANGED <<overlapVars, repeatVars>>

\* detect_objects up to the cluster loop: cluster the target image.
detect_objects_begin ==
    /\ pc = "idle"
    /\ \E n \in 0..MaxTargetKeypoints : \E fit \in MeanShiftFits(n) :
        LET r == meanshift_keypoint_clusters(TargetKeypoints(n),
                                             TargetDescriptors(n), fit)
        IN  /\ keypoints' = TargetKeypoints(n)
            /\ IF r.raised
               THEN /\ pc' = "raised"
                    /\ error' = r.error
                    /\ n_clusters' = 0
                    /\ n_labels' = 0
               ELSE /\ pc' = "detect"
                    /\ error' = ""
                    /\ n_clusters' = Len(r.kp_clusters)
                    /\ n_labels' = Len(labels)
    /\ ic' = 0
    /\ il' = 0
    /\ detected_objects' = <<>>
    /\ last' = NoAttempt
    /\ rejected_in_cluster' = FALSE
    /\ UNCHANGED <<templates, labels, registered>>
    /\ UNCHANGED <<clusterVars, boxVars, valVars>>
    /\ UNCHANGED <<overlapVars, repeatVars>>

\* findHomography is consulted only when build_bounding_box runs.
NotConsulted == [M |-> [found |-> FALSE], mask |-> [kind |-> "None"]]

\* Faulty variant: a candidate is appended without the overlap check.
detect_objects_attempt_unchecked ==
    /\ pc = "detect"
    /\ ic < n_clusters
    /\ il < n_labels
    /\ \E m \in MatchCounts :
       \E H \in (IF get_matching_boundingbox(m, NotConsulted, MIN_MATCHES,
                                             {MIN_INLIERS}).called
                 THEN HomographyResults ELSE {NotConsulted}) :
        LET label == labels[il + 1]
            r == get_matching_boundingbox(m, H, MIN_MATCHES, {MIN_INLIERS})
            bounding_box == r.out
            new_object == DetectedObject(label, bounding_box.box)
            attempt == [ic |-> ic, il |-> il, matches |-> m, called |-> r.called,
                        H |-> H, out |-> bounding_box, verdict |-> "none"]
            rejected_so_far == il > 0 /\ rejected_in_cluster
        IN  IF bounding_box.kind = "Raise"
            THEN /\ pc' = "raised"
                 /\ error' = bounding_box.error
                 /\ last' = [attempt EXCEPT !.verdict = "raised"]
                 /\ rejected_in_cluster' = rejected_so_far
                 /\ UNCHANGED <<ic, il, detected_objects>>
            ELSE IF bounding_box.kind = "None"
            THEN /\ il' = il + 1
                 /\ last' = [attempt EXCEPT !.verdict = "no_box"]
                 /\ rejected_in_cluster' = rejected_so_far
                 /\ UNCHANGED <<pc, error, ic, detected_objects>>
            ELSE /\ detected_objects' = Append(detected_objects, new_object)
                 /\ ic' = ic + 1
                 /\ il' = 0
                 /\ rejected_in_cluster' = rejected_so_far
                 /\ last' = [attempt EXCEPT !.verdict = "accepted"]
                 /\ UNCHANGED <<pc, error>>
    /\ UNCHANGED <<templates, labels, registered, keypoints, n_clusters, n_labels>>
    /\ UNCHANGED <<clusterVars, boxVars, valVars>>
    /\ UNCHANGED <<overlapVars, repeatVars>>

\* Faulty variant: an overlap rejection ends the cluster's template loop as well.
detect_objects_attempt_overlap_breaks ==
    /\ pc = "detect"
    /\ ic < n_clusters
    /\ il < n_labels
    /\ \E m \in MatchCounts :
       \E H \in (IF get_matching_boundingbox(m, NotConsulted, MIN_MATCHES,
                                             {MIN_INLIERS}).called
                 THEN HomographyResults ELSE {NotConsulted}) :
        LET label == labels[il + 1]
            r == get_matching_boundingbox(m, H, MIN_MATCHES, {MIN_INLIERS})
            bounding_box == r.out
            new_object == DetectedObject(label, bounding_box.box)
            attempt == [ic |-> ic, il |-> il, matches |-> m, called |-> r.called,
                        H |-> H, out |-> bounding_box, verdict |-> "none"]
            rejected_so_far == il > 0 /\ rejected_in_cluster
        IN  IF bounding_box.kind = "Raise"
            THEN /\ pc' = "raised"
                 /\ error' = bounding_box.error
                 /\ last' = [attempt EXCEPT !.verdict = "raised"]
                 /\ rejected_in_cluster' = rejected_so_far
                 /\ UNCHANGED <<ic, il, detected_objects>>
            ELSE IF bounding_box.kind = "None"
            THEN /\ il' = il + 1
                 /\ last' = [attempt EXCEPT !.verdict = "no_box"]
                 /\ rejected_in_cluster' = rejected_so_far
                 /\ UNCHANGED <<pc, error, ic, detected_objects>>
            ELSE IF verify_non_overlapping(detected_objects, new_object)
            THEN /\ detected_objects' = Append(detected_objects, new_object)
                 /\ ic' = ic + 1
                 /\ il' = 0
                 /\ rejected_in_cluster' = rejected_so_far
                 /\ last' = [attempt EXCEPT !.verdict = "accepted"]
                 /\ UNCHANGED <<pc, error>>
            ELSE /\ ic' = ic + 1
                 /\ il' = 0
                 /\ rejected_in_cluster' = TRUE
                 /\ last' = [attempt EXCEPT !.verdict = "overlap"]
                 /\ UNCHANGED <<pc, error, detected_objects>>
    /\ UNCHANGED <<templates, labels, registered, keypoints, n_clusters, n_labels>>
    /\ UNCHANGED <<clusterVars, boxVars, valVars>>
    /\ UNCHANGED <<overlapVars, repeatVars>>

\* One pass through the body of the template loop, for cluster ic and
\* template il.
detect_objects_attempt ==
    /\ pc = "detect"
    /\ ic < n_clusters
    /\ il < n_labels
    /\ \E m \in MatchCounts :
       \E H \in (IF get_matching_boundingbox(m, NotConsulted, MIN_MATCHES,
                                             {MIN_INLIERS}).called
                 THEN HomographyResults ELSE {NotConsulted}) :
        LET label == labels[il + 1]
            r == get_matching_boundingbox(m, H, MIN_MATCHES, {MIN_INLIERS})
            bounding_box == r.out
            new_object == DetectedObject(label, bounding_box.box)
            attempt == [ic |-> ic, il |-> il, matches |-> m, called |-> r.called,
                        H |-> H, out |-> bounding_box, verdict |-> "none"]
            rejected_so_far == il > 0 /\ rejected_in_cluster
        IN  IF bounding_box.kind = "Raise"
            THEN /\ pc' = "raised"
                 /\ error' = bounding_box.error
                 /\ last' = [attempt EXCEPT !.verdict = "raised"]
                 /\ rejected_in_cluster' = rejected_so_far
                 /\ UNCHANGED <<ic, il, detected_objects>>
            ELSE IF bounding_box.kind = "None"
            THEN /\ il' = il + 1
                 /\ last' = [attempt EXCEPT !.verdict = "no_box"]
                 /\ rejected_in_cluster' = rejected_so_far
                 /\ UNCHANGED <<pc, error, ic, detected_objects>>
            ELSE IF verify_non_overlapping(detected_objects, new_object)
            THEN /\ detected_objects' = Append(detected_objects, new_object)
                 /\ ic' = ic + 1
                 /\ il' = 0
                 /\ rejected_in_cluster' = rejected_so_far
                 /\ last' = [attempt EXCEPT !.verdict = "accepted"]
                 /\ UNCHANGED <<pc, error>>
            ELSE /\ il' = il + 1
                 /\ rejected_in_cluster' = TRUE
                 /\ last' = [attempt EXCEPT !.verdict = "overlap"]
                 /\ UNCHANGED <<pc, error, ic, detected_objects>>
    /\ UNCHANGED <<templates, labels, registered, keypoints, n_clusters, n_labels>>
    /\ UNCHANGED <<clusterVars, boxVars, valVars>>
    /\ UNCHANGED <<overlapVars, repeatVars>>

\* The template loop ran out of templates: on to the next cluster.
detect_objects_next_cluster ==
    /\ pc = "detect"
    /\ ic < n_clusters
    /\ il = n_labels
    /\ ic' = ic + 1
    /\ il' = 0
    /\ UNCHANGED <<templates, labels, registered, pc, error, keypoints,
                   n_clusters, n_labels, detected_objects, last,
                   rejected_in_cluster>>
    /\ UNCHANGED <<clusterVars, boxVars, valVars>>
    /\ UNCHANGED <<overlapVars, repeatVars>>

\* The cluster loop is over: return detected_objects.
detect_objects_return ==
    /\ pc = "detect"
    /\ ic = n_clusters
    /\ pc' = "returned"
    /\ UNCHANGED <<templates, labels, registered, error>>
    /\ UNCHANGED passVars
    /\ UNCHANGED <<clusterVars, boxVars, valVars>>
    /\ UNCHANGED <<overlapVars, repeatVars>>

\* The call is over (returned or raised): its locals are gone, and the
\* caller goes on with the matcher.
detect_objects_done ==
    /\ pc \in {"returned", "raised"}
    /\ pc' = "idle"
    /\ error' = ""
    /\ keypoints' = <<>>
    /\ n_clusters' = 0
    /\ n_labels' = 0
    /\ ic' = 0
    /\ il' = 0
    /\ detected_objects' = <<>>
    /\ last' = NoAttempt
    /\ rejected_in_cluster' = FALSE
    /\ UNCHANGED <<templates, labels, registered>>
    /\ UNCHANGED <<clusterVars, boxVars, valVars>>
    /\ UNCHANGED <<overlapVars, repeatVars>>

Next ==
    \/ add_template
    \/ detect_objects_begin
    \/ detect_objects_attempt
    \/ detect_objects_next_cluster
    \/ detect_objects_return
    \/ detect_objects_done

Spec == Init /\ [][Next]_vars

\* ------------------------------------------------------------------------
\* SpecCluster: one meanshift_keypoint_clusters call on any keypoint set
\* ------------------------------------------------------------------------
InitCluster ==
    /\ MatcherIdle
    /\ BoxIdle
    /\ ValIdle
    /\ OverlapIdle
    /\ RepeatIdle

meanshift_keypoint_clusters_call ==
    /\ pc = "idle"
    /\ \E n \in 0..MaxKeypoints : \E fit \in MeanShiftFits(n) :
        LET r == meanshift_keypoint_clusters(TargetKeypoints(n),
                                             TargetDescriptors(n), fit)
        IN  /\ keypoints' = TargetKeypoints(n)
            /\ descriptors' = TargetDescriptors(n)
            /\ ms_labels' = fit
            /\ IF r.raised
               THEN /\ pc' = "raised"
                    /\ error' = r.error
                    /\ UNCHANGED <<kp_clusters, ds_clusters>>
               ELSE /\ pc' = "returned"
                    /\ error' = ""
                    /\ kp_clusters' = r.kp_clusters
                    /\ ds_clusters' = r.ds_clusters
    /\ UNCHANGED <<templates, labels, registered, n_clusters, n_labels, ic, il,
                   detected_objects, last, rejected_in_cluster>>
    /\ UNCHANGED <<boxVars, valVars>>
    /\ UNCHANGED <<overlapVars, repeatVars>>

\* The caller drops the result; the next image is clustered.
meanshift_keypoint_clusters_done ==
    /\ pc \in {"returned", "raised"}
    /\ pc' = "idle"
    /\ error' = ""
    /\ keypoints' = <<>>
    /\ descriptors' = <<>>
    /\ ms_labels' = <<>>
    /\ kp_clusters' = <<>>
    /\ ds_clusters' = <<>>
    /\ UNCHANGED <<templates, labels, registered, n_clusters, n_labels, ic, il,
                   detected_objects, last, rejected_in_cluster>>
    /\ UNCHANGED <<boxVars, valVars>>
    /\ UNCHANGED <<overlapVars, repeatVars>>

NextCluster ==
    \/ meanshift_keypoint_clusters_call
    \/ meanshift_keypoint_clusters_done

SpecCluster == InitCluster /\ [][NextCluster]_vars

\* ------------------------------------------------------------------------
\* SpecBox: one get_matching_boundingbox call on any arguments
\* ------------------------------------------------------------------------
\* len(matches) around the threshold.
BoxMatchCounts == (MIN_MATCHES - 1)..(MIN_MATCHES + 1)

\* MIN_INLIERS as the callers give it: detect_objects gives 10,
\* bruteforce_match_clusters gives its default, None.
BoxMinInliers == { {}, {MIN_INLIERS} }

InitBox ==
    /\ MatcherIdle
    /\ ValIdle
    /\ OverlapIdle
    /\ RepeatIdle
    /\ box_args \in [matches : BoxMatchCounts, H : HomographyResults,
                     min_matches : {MIN_MATCHES}, min_inliers : BoxMinInliers]
    /\ box_result = Pending

get_matching_boundingbox_call ==
    /\ box_result = Pending
    /\ box_result' = get_matching_boundingbox(box_args.matches, box_args.H,
                         box_args.min_matches, box_args.min_inliers)
    /\ UNCHANGED <<box_args, matcherVars, valVars>>
    /\ UNCHANGED <<overlapVars, repeatVars>>

NextBox == get_matching_boundingbox_call

SpecBox == InitBox /\ [][NextBox]_vars

\* ------------------------------------------------------------------------
\* SpecValidation: study_matches over any ground-truth table, with any model
\* ------------------------------------------------------------------------
Row(image_file, brand, box) ==
    [image_file |-> image_file, brand |-> brand,
     bbx1 |-> box[1], bby1 |-> box[2], bbx2 |-> box[3], bby2 |-> box[4]]

\* Rows of the BelgaLogos metadata table.
GroundTruthRows ==
    { Row("A.jpg", "Adidas",  <<50, 50, 150, 150>>),
      Row("A.jpg", "Adidas",  <<90, 90, 150, 150>>),
      Row("B.jpg", "Adidas",  <<60, 50, 150, 150>>),
      Row("B.jpg", "Ferrari", <<50, 50, 150, 150>>) }

RECURSIVE SeqsUpTo(_, _)
SeqsUpTo(S, n) ==
    IF n = 0 THEN {<<>>}
    ELSE LET shorter == SeqsUpTo(S, n - 1)
         IN  shorter \cup {Append(q, x) : q \in shorter, x \in S}

MetadataTables == SeqsUpTo(GroundTruthRows, MaxRows)

\* What model.detect_objects may return for an image.
ModelDetections ==
    { DetectedObject("Adidas",                      \* AABB <<0,0,100,100>>
          << <<0, 0>>, <<10, 100>>, <<100, 90>>, <<90, 5>> >>),
      DetectedObject("Adidas",                      \* AABB <<100,100,150,150>>
          << <<100, 100>>, <<100, 150>>, <<150, 150>>, <<150, 100>> >>) }

ModelDetectionLists == SeqsUpTo(ModelDetections, MaxDetections)

metadata_to_AABB(md) == <<md.bbx1, md.bby1, md.bbx2, md.bby2>>

\* The loop over the annotations of the detection's brand, with its break.
\* The areas are integers, so overlap > 0.2*detected_area is
\* 5*overlap > detected_area.
RECURSIVE any_annotation_matches(_, _, _, _)
any_annotation_matches(true_labels, detected, detected_area, k) ==
    IF k > Len(true_labels) THEN FALSE
    ELSE LET itruth  == metadata_to_AABB(true_labels[k])
             overlap == compute_rectangle_intersection(detected, itruth)
         IN  IF 5 * overlap > detected_area THEN TRUE
             ELSE any_annotation_matches(true_labels, detected, detected_area, k + 1)

\* Faulty variant: the annotation's area as the denominator.
validate_detected_objects_truth_area(md, objects) ==
    [io \in 1..Len(objects) |->
        LET detected == vertices_to_AABB(objects[io].bounding_box)
        IN  \E k \in DOMAIN md :
                /\ md[k].brand = objects[io].label
                /\ 5 * compute_rectangle_intersection(detected, metadata_to_AABB(md[k]))
                       > compute_rectangle_area(metadata_to_AABB(md[k]))]

\* Faulty variant: an annotation that matched a detection is used up.
RECURSIVE validate_one_to_one_from(_, _, _, _)
validate_one_to_one_from(md, objects, io, used) ==
    IF io > Len(objects) THEN <<>>
    ELSE LET detected == vertices_to_AABB(objects[io].bounding_box)
             free == {k \in DOMAIN md \ used :
                         /\ md[k].brand = objects[io].label
                         /\ 5 * compute_rectangle_intersection(
                                    detected, metadata_to_AABB(md[k]))
                                > compute_rectangle_area(detected)}
         IN  IF free = {}
             THEN <<FALSE>> \o validate_one_to_one_from(md, objects, io + 1, used)
             ELSE <<TRUE>> \o validate_one_to_one_from(md, objects, io + 1,
                                                      used \cup {SetMin(free)})

validate_detected_objects_one_to_one(md, objects) ==
    validate_one_to_one_from(md, objects, 1, {})

validate_detected_objects(md, objects) ==
    [io \in 1..Len(objects) |->
        LET iobject       == objects[io]
            detected      == vertices_to_AABB(iobject.bounding_box)
            detected_area == compute_rectangle_area(detected)
            true_labels   == SelectSeq(md, LAMBDA row : row.brand = iobject.label)
        IN  any_annotation_matches(true_labels, detected, detected_area, 1)]

\* Faulty variant: the column itself, repeated values kept.
pd_unique_keeps_repeats(column) == column

\* pandas Series.unique(): the distinct values, in order of first appearance.
RECURSIVE unique_from(_, _, _)
unique_from(column, k, seen) ==
    IF k > Len(column) THEN <<>>
    ELSE IF column[k] \in seen THEN unique_from(column, k + 1, seen)
    ELSE <<column[k]>> \o unique_from(column, k + 1, seen \cup {column[k]})

pd_unique(column) == unique_from(column, 1, {})

\* np.sum of a list of bools: a numpy scalar.
np_sum(bools) ==
    [v |-> Cardinality({k \in DOMAIN bools : bools[k]}), np |-> TRUE]

\* Python + and - : the result is a numpy scalar as soon as an operand is.
py_add(a, b) == [v |-> a.v + b.v, np |-> a.np \/ b.np]
py_sub(a, b) == [v |-> a.v - b.v, np |-> a.np \/ b.np]

\* Faulty variant: a zero divisor never raises.
true_divide_never_raises(a, b) ==
    IF b.v = 0 THEN [kind |-> "nonfinite"]
    ELSE [kind |-> "ratio", num |-> a.v, den |-> b.v]

\* Python a / b.  A zero divisor raises ZeroDivisionError between Python
\* numbers; with a numpy scalar on either side it gives nan or inf (and a
\* RuntimeWarning).  A quotient is kept as its numerator and denominator.
true_divide(a, b) ==
    IF b.v = 0
    THEN IF a.np \/ b.np THEN [kind |-> "nonfinite"]
         ELSE [kind |-> "Raise", error |-> "ZeroDivisionError"]
    ELSE [kind |-> "ratio", num |-> a.v, den |-> b.v]

InitValidation ==
    /\ MatcherIdle
    /\ BoxIdle
    /\ OverlapIdle
    /\ RepeatIdle
    /\ metadata \in MetadataTables
    /\ vpc = "start"
    /\ verror = ""
    /\ unique_images = <<>>
    /\ image_idx = 0
    /\ image_metadata = <<>>
    /\ image_detected = <<>>
    /\ correct_matches = <<>>
    /\ true_positives = PyInt(0)
    /\ actual_positives = PyInt(0)
    /\ false_positives = PyInt(0)
    /\ image_count = PyInt(0)
    /\ summary = NoSummary
    /\ tally = <<>>

\* study_matches up to its loop.
study_matches_begin ==
    /\ vpc = "start"
    /\ unique_images' =
           pd_unique([k \in DOMAIN metadata |-> metadata[k].image_file])
    /\ vpc' = "loop"
    /\ UNCHANGED <<metadata, verror, image_idx, image_metadata, image_detected,
                   correct_matches, true_positives, actual_positives,
                   false_positives, image_count, summary, tally>>
    /\ UNCHANGED <<matcherVars, boxVars>>
    /\ UNCHANGED <<overlapVars, repeatVars>>

\* The body of the loop over the images, for unique_images[image_idx].
study_matches_image ==
    /\ vpc = "loop"
    /\ image_idx < Len(unique_images)
    /\ \E objects \in ModelDetectionLists :
        LET image == unique_images[image_idx + 1]
            rows == SelectSeq(metadata, LAMBDA row : row.image_file = image)
            marks == validate_detected_objects(rows, objects)
        IN  /\ image_metadata' = rows
            /\ image_detected' = objects
            /\ correct_matches' = marks
            /\ actual_positives' = py_add(actual_positives, PyInt(Len(rows)))
            /\ true_positives' = py_add(true_positives, np_sum(marks))
            /\ false_positives' =
                   py_add(false_positives, py_sub(PyInt(Len(marks)), np_sum(marks)))
            /\ image_count' = py_add(image_count, PyInt(1))
            /\ tally' = Append(tally,
                   [rows |-> Len(rows), detections |-> Len(objects),
                    correct |-> Cardinality({k \in DOMAIN marks : marks[k]})])
    /\ image_idx' = image_idx + 1
    /\ UNCHANGED <<metadata, vpc, verror, unique_images, summary>>
    /\ UNCHANGED <<matcherVars, boxVars>>
    /\ UNCHANGED <<overlapVars, repeatVars>>

\* After the loop: build count_dict and return it.
study_matches_finish ==
    /\ vpc = "loop"
    /\ image_idx = Len(unique_images)
    /\ LET true_positive_ratio == true_divide(true_positives, actual_positives)
           false_positives_per_image == true_divide(false_positives, image_count)
       IN  IF true_positive_ratio.kind = "Raise"
           THEN /\ vpc' = "raised"
                /\ verror' = true_positive_ratio.error
                /\ UNCHANGED summary
           ELSE IF false_positives_per_image.kind = "Raise"
           THEN /\ vpc' = "raised"
                /\ verror' = false_positives_per_image.error
                /\ UNCHANGED summary
           ELSE /\ vpc' = "done"
                /\ summary' =
                       [kind |-> "Series",
                        true_positives |-> true_positives.v,
                        actual_positives |-> actual_positives.v,
                        true_positive_ratio |-> true_positive_ratio,
                        false_positives |-> false_positives.v,
                        false_positives_per_image |-> false_positives_per_image,
                        image_count |-> image_count.v]
                /\ UNCHANGED verror
    /\ UNCHANGED <<metadata, unique_images, image_idx, image_metadata,
                   image_detected, correct_matches, true_positives,
                   actual_positives, false_positives, image_count, tally>>
    /\ UNCHANGED <<matcherVars, boxVars>>
    /\ UNCHANGED <<overlapVars, repeatVars>>

NextValidation ==
    \/ study_matches_begin
    \/ study_matches_image
    \/ study_matches_finish

SpecValidation == InitValidation /\ [][NextValidation]_vars

\* ------------------------------------------------------------------------
\* SpecOverlap: one verify_non_overlapping call on any accepted list
\* ------------------------------------------------------------------------
\* np.int32(dst) of an upright template: the box from x1 to x2, two pixels
\* high, as its four vertices; x1 = x2 is a box of no area.  (Boxes nested
\* in both directions are among the Quads of Spec.)
UprightBox(x1, x2) == << <<x1, 0>>, <<x1, 2>>, <<x2, 2>>, <<x2, 0>> >>

OverlapObjects ==
    UNION { { DetectedObject("Adidas", UprightBox(x1, x2)) : x2 \in x1..MaxCoord } :
            x1 \in 0..MaxCoord }

\* The lists detect_objects can hold when it calls verify_non_overlapping:
\* every element passed the check against the elements before it.
AcceptedLists ==
    { list \in SeqsUpTo(OverlapObjects, MaxDetections) :
        OverlapDedup(list) = list }

InitOverlap ==
    /\ MatcherIdle
    /\ BoxIdle
    /\ ValIdle
    /\ RepeatIdle
    /\ verify_args \in [detected_objects : AcceptedLists,
                        new_object : OverlapObjects]
    /\ verify_result = Pending

verify_non_overlapping_call ==
    /\ verify_result = Pending
    /\ verify_result' =
           [kind |-> "bool",
            value |-> verify_non_overlapping(verify_args.detected_objects,
                                             verify_args.new_object)]
    /\ UNCHANGED <<verify_args, matcherVars, boxVars, valVars, repeatVars>>

NextOverlap == verify_non_overlapping_call

SpecOverlap == InitOverlap /\ [][NextOverlap]_vars

\* ------------------------------------------------------------------------
\* SpecRepeat: detect_objects called again and again on one matcher, the
\* external libraries being deterministic
\* ------------------------------------------------------------------------
\* The images held by registry entries.
TemplateImages ==
    UNION { {t.image, bitwise_not(t.image)} : t \in TemplateInputs }

\* What matcher.match and cv2.findHomography give for a template against a
\* cluster: too few matches, or enough matches and a homography with enough
\* inliers, or enough matches and no homography and no mask.
RepeatAnswers ==
    { [matches |-> MIN_MATCHES - 1, H |-> NotConsulted] }
    \cup
    { [matches |-> MIN_MATCHES, H |-> h] :
        h \in { g \in HomographyResults :
                  \/ g.mask.kind = "None"
                  \/ g.M.found /\ g.mask.inliers = MIN_INLIERS } }

\* A deterministic environment: the answer depends on the template image
\* (every cluster of every target image looks the same to the matcher).
Oracles == [TemplateImages -> RepeatAnswers]

\* A deterministic clustering: every keypoint is a cluster of its own.
FixedFit(n) == [i \in 1..n |-> i - 1]

InitRepeat ==
    /\ MatcherIdle
    /\ BoxIdle
    /\ ValIdle
    /\ OverlapIdle
    /\ oracle \in Oracles
    /\ remembered = NoCall
    /\ between = NoCall

\* detect_objects up to the cluster loop, the clustering being FixedFit.
detect_objects_begin_fixed ==
    /\ detect_objects_begin
    /\ LET r == meanshift_keypoint_labels(keypoints', FixedFit(Len(keypoints')))
       IN  n_clusters' = IF r.raised THEN 0 ELSE r.nclusters

\* The template loop's body, the libraries answering as oracle says.
detect_objects_attempt_fixed ==
    /\ detect_objects_attempt
    /\ last'.matches = oracle[templates[il + 1].image].matches
    /\ last'.H = oracle[templates[il + 1].image].H

\* How the call under way ended: with its list or with its exception.
Outcome ==
    IF pc = "returned" THEN [kind |-> "list", list |-> detected_objects]
    ELSE [kind |-> "raise", error |-> error]

\* The caller gets the result (image_detected = model.detect_objects(image)):
\* the call's other locals are gone.  The caller keeps a record of the call,
\* and the returned list lives on with it, or goes on without.
caller_takes_result ==
    /\ pc \in {"returned", "raised"}
    /\ pc' = "idle"
    /\ error' = ""
    /\ keypoints' = <<>>
    /\ n_clusters' = 0
    /\ n_labels' = 0
    /\ ic' = 0
    /\ il' = 0
    /\ last' = NoAttempt
    /\ rejected_in_cluster' = FALSE
    /\ \/ /\ remembered' = [kind |-> "call", image |-> keypoints,
                            templates |-> templates, labels |-> labels,
                            outcome |-> Outcome]
          /\ between' = NoCall
          /\ UNCHANGED detected_objects
       \/ /\ remembered' = remembered
          /\ between' = IF remembered.kind = "call" /\ remembered.image # keypoints
                        THEN Outcome ELSE between
          /\ detected_objects' = <<>>
    /\ UNCHANGED <<templates, labels, registered, oracle>>
    /\ UNCHANGED <<clusterVars, boxVars, valVars, overlapVars>>

\* add_template before the call the caller keeps: the registry only grows, so
\* two calls have the same registry only when no add_template came between.
add_template_before ==
    /\ add_template
    /\ remembered = NoCall

NextRepeat ==
    \/ add_template_before
    \/ detect_objects_begin_fixed
    \/ detect_objects_attempt_fixed
    \/ detect_objects_next_cluster
    \/ detect_objects_return
    \/ caller_takes_result

SpecRepeat == InitRepeat /\ [][NextRepeat]_vars

\* ------------------------------------------------------------------------
\* Properties of the matcher (Spec)
\* ------------------------------------------------------------------------
\* Geometry restated on unit cells, independently of the rectangle
\* arithmetic of validation.py.
CellsOf(quad) ==
    LET xs == {quad[i][1] : i \in DOMAIN quad}
        ys == {quad[i][2] : i \in DOMAIN quad}
    IN  {<<x, y>> : x \in SetMin(xs)..(SetMax(xs) - 1),
                    y \in SetMin(ys)..(SetMax(ys) - 1)}

CommonCells(q1, q2) == Cardinality(CellsOf(q1) \cap CellsOf(q2))

\* The candidate overlaps more than half of the box of some object of list.
CoversHalfOfSome(candidate, list) ==
    \E k \in DOMAIN list :
        2 * CommonCells(candidate, list[k].bounding_box)
            > Cardinality(CellsOf(list[k].bounding_box))

\* The detections accepted before the last attempt of the pass.
AcceptedBefore ==
    IF last.verdict = "accepted"
    THEN SubSeq(detected_objects, 1, Len(detected_objects) - 1)
    ELSE detected_objects

\* C1: a candidate of a pass is rejected iff its box intersects the box of
\* some detection accepted earlier in the pass in strictly more than half of
\* that earlier box's area; otherwise (exactly half included) it is accepted.
C1_RejectedIffCoversHalfOfEarlier ==
    last.verdict \in {"accepted", "overlap"} =>
        /\ last.out.kind = "Quad"
        /\ (last.verdict = "overlap")
               <=> CoversHalfOfSome(last.out.box, AcceptedBefore)

\* C1 witness: a candidate rejected for covering more than half of an earlier
\* box although the intersection is at most half of the candidate's own box.
C1_Witness ==
    /\ last.verdict = "overlap"
    /\ \A k \in DOMAIN detected_objects :
           2 * CommonCells(last.out.box, detected_objects[k].bounding_box)
               <= Cardinality(CellsOf(last.out.box))

\* A step of the pass that ran the template loop's body for (ic, il).
IsAttempt == pc = "detect" /\ last' # last

C2_Step ==
    \* clusters in increasing index, templates in registration order
    /\ (pc = "detect" /\ pc' = "detect") =>
           \/ ic' = ic /\ il' = il + 1
           \/ ic' = ic + 1 /\ il' = 0
    /\ IsAttempt => last'.ic = ic /\ last'.il = il /\ il < n_labels
    \* a template that yields a Quad passing the overlap check is accepted on
    \* the spot, with its label, and ends the cluster's loop
    /\ (IsAttempt /\ last'.out.kind = "Quad"
            /\ ~CoversHalfOfSome(last'.out.box, detected_objects)) =>
           /\ detected_objects' =
                  Append(detected_objects,
                         DetectedObject(labels[il + 1], last'.out.box))
           /\ ic' = ic + 1 /\ il' = 0 /\ pc' = "detect"
    \* anything else leaves the list alone
    /\ (pc = "detect" /\ ~(IsAttempt /\ last'.out.kind = "Quad"
            /\ ~CoversHalfOfSome(last'.out.box, detected_objects))) =>
           detected_objects' = detected_objects
    \* an overlap rejection goes on with the next template of the cluster
    /\ (IsAttempt /\ last'.out.kind = "Quad"
            /\ CoversHalfOfSome(last'.out.box, detected_objects)) =>
           ic' = ic /\ il' = il + 1 /\ pc' = "detect"
    \* a cluster is left without a detection only when no template is left
    /\ (pc = "detect" /\ ic' = ic + 1 /\ detected_objects' = detected_objects) =>
           il = n_labels
    \* at most one detection per cluster visited
    /\ pc' = "detect" => Len(detected_objects') <= ic'

\* C2: detect_objects visits clusters by index and templates in registration
\* order; the first template giving a Quad that passes the overlap check is
\* accepted and ends the cluster's loop, an overlap rejection does not; each
\* cluster contributes at most one detection, in cluster order.
C2_FirstFitPerCluster == [][C2_Step]_vars

\* C2 witness: a template accepted for a cluster after an earlier template of
\* the same cluster was rejected by the overlap check.
C2_Witness ==
    /\ last.verdict = "accepted"
    /\ rejected_in_cluster
    /\ last.il > 0
    /\ Len(detected_objects) = 2

\* C5: at least MIN_MATCHES matches and no homography found gives no match
\* and no exception, and the pass goes on.
C5_NoHomographyIsNoMatch ==
    (last.verdict # "none" /\ last.called /\ ~last.H.M.found) =>
        (last.out.kind = "None" /\ pc # "raised")

\* C6: an empty keypoint set makes detect_objects return an empty list.
C6_EmptyKeypointsGiveEmptyList ==
    (pc \in {"returned", "raised"} /\ keypoints = <<>>) =>
        (pc = "returned" /\ detected_objects = <<>>)

\* C10: n add_template calls leave 2n templates and 2n labels; entries
\* 2i-1 and 2i (0-based 2i and 2i+1) carry the i-th call's label, the first
\* from its image, the second from the brightness inverse of that image.
C10_TwoEntriesPerTemplate ==
    /\ Len(templates) = 2 * Len(registered)
    /\ Len(labels) = 2 * Len(registered)
    /\ \A i \in DOMAIN registered :
        LET original == templates[2 * i - 1]
            inverted == templates[2 * i]
            image == registered[i].image
        IN  /\ labels[2 * i - 1] = registered[i].label
            /\ labels[2 * i] = registered[i].label
            /\ original.image = image
            /\ DOMAIN inverted.image = DOMAIN image
            /\ \A p \in DOMAIN image : inverted.image[p] + image[p] = 255
            /\ original.descriptors = TemplateFeatures(original.image).descriptors
            /\ inverted.descriptors = TemplateFeatures(inverted.image).descriptors

\* C10 witness: two registrations with different labels.
C10_Witness ==
    /\ Len(registered) = 2
    /\ registered[1].label # registered[2].label
    /\ Len(labels) = 4

\* ------------------------------------------------------------------------
\* Properties of get_matching_boundingbox (SpecBox)
\* ------------------------------------------------------------------------
BoxFound == box_args.H.M.found
BoxInliers == box_args.H.mask.inliers
BoxIsQuad == box_result.out = [kind |-> "Quad", box |-> box_args.H.M.dst]
BoxIsNoMatch == box_result.out = [kind |-> "None"]

\* C8: with a homography found, exactly MIN_MATCHES matches and exactly
\* MIN_INLIERS inliers give the Quad; MIN_MATCHES - 1 matches give no match
\* and the estimator is not called; MIN_INLIERS - 1 inliers give no match
\* although a homography was found; with MIN_INLIERS None the inlier count
\* is not looked at.
C8_ThresholdBoundaries ==
    box_result # Pending =>
        /\ (/\ box_args.matches = box_args.min_matches
            /\ BoxFound
            /\ box_args.min_inliers # {}
            /\ BoxInliers = Some(box_args.min_inliers))
               => (BoxIsQuad /\ box_result.called)
        /\ box_args.matches = box_args.min_matches - 1
               => (BoxIsNoMatch /\ ~box_result.called)
        /\ (/\ box_args.matches >= box_args.min_matches
            /\ BoxFound
            /\ box_args.min_inliers # {}
            /\ BoxInliers = Some(box_args.min_inliers) - 1)
               => (BoxIsNoMatch /\ box_result.called)
        /\ (box_args.matches >= box_args.min_matches /\ box_args.min_inliers = {})
               => /\ box_result.called
                  /\ BoxFound => BoxIsQuad
                  /\ ~BoxFound => BoxIsNoMatch

\* C8 witness: exactly MIN_MATCHES matches, exactly MIN_INLIERS inliers, and
\* the Quad is returned.
C8_Witness ==
    /\ box_result # Pending
    /\ box_args.matches = MIN_MATCHES
    /\ box_args.min_inliers = {MIN_INLIERS}
    /\ BoxFound
    /\ BoxInliers = MIN_INLIERS
    /\ BoxIsQuad

\* ------------------------------------------------------------------------
\* Properties of meanshift_keypoint_clusters (SpecCluster)
\* ------------------------------------------------------------------------
\* The position in the finder's output of a keypoint (keypoints are distinct).
PositionOf(kp) == CHOOSE j \in DOMAIN keypoints : keypoints[j] = kp

\* The (cluster, position) places at which keypoint j occurs in the clusters.
PlacesOf(j) ==
    {<<i, p>> \in (DOMAIN kp_clusters) \X (1..Len(keypoints)) :
        p \in DOMAIN kp_clusters[i] /\ kp_clusters[i][p] = keypoints[j]}

\* C9: the clusters 0..k-1, k = max label + 1, hold every keypoint exactly
\* once, cluster i exactly the keypoints labelled i, in their original
\* relative order, and each descriptor sits at its keypoint's position.
C9_PartitionComplete ==
    (pc = "returned" /\ Len(keypoints) > 0) =>
        /\ Len(kp_clusters) = SetMax({ms_labels[j] : j \in DOMAIN ms_labels}) + 1
        /\ Len(ds_clusters) = Len(kp_clusters)
        /\ \A j \in DOMAIN keypoints :
               /\ Cardinality(PlacesOf(j)) = 1
               /\ \A pl \in PlacesOf(j) : pl[1] = ms_labels[j] + 1
        /\ \A i \in DOMAIN kp_clusters :
               /\ Len(kp_clusters[i]) =
                      Cardinality({j \in DOMAIN keypoints : ms_labels[j] = i - 1})
               /\ Len(ds_clusters[i]) = Len(kp_clusters[i])
               /\ \A p \in DOMAIN kp_clusters[i] :
                      /\ \E j \in DOMAIN keypoints : kp_clusters[i][p] = keypoints[j]
                      /\ ds_clusters[i][p] = descriptors[PositionOf(kp_clusters[i][p])]
               /\ \A p, q \in DOMAIN kp_clusters[i] :
                      p < q => PositionOf(kp_clusters[i][p])
                                   < PositionOf(kp_clusters[i][q])

\* C9 witness: a cluster holding two keypoints that were not neighbours in the
\* finder's output, the keypoint between them in another cluster.
C9_Witness ==
    /\ pc = "returned"
    /\ Len(keypoints) >= 3
    /\ ms_labels[1] = 1 /\ ms_labels[2] = 0 /\ ms_labels[3] = 1
    /\ Len(kp_clusters) = 2
    /\ kp_clusters[2] = <<keypoints[1], keypoints[3]>>

\* ------------------------------------------------------------------------
\* Properties of the validation (SpecValidation)
\* ------------------------------------------------------------------------
\* Areas restated on the integer points of the two axes.
Span(lo, hi) == lo..(hi - 1)
SpanX(quad) ==
    Span(SetMin({quad[i][1] : i \in DOMAIN quad}), SetMax({quad[i][1] : i \in DOMAIN quad}))
SpanY(quad) ==
    Span(SetMin({quad[i][2] : i \in DOMAIN quad}), SetMax({quad[i][2] : i \in DOMAIN quad}))
QuadArea(quad) == Cardinality(SpanX(quad)) * Cardinality(SpanY(quad))
AreaInRow(quad, row) ==
    Cardinality(SpanX(quad) \cap Span(row.bbx1, row.bbx2))
        * Cardinality(SpanY(quad) \cap Span(row.bby1, row.bby2))

\* Some row of rows has the object's label and covers more than 20% of its box.
MatchedBySome(object, rows) ==
    \E k \in DOMAIN rows :
        /\ rows[k].brand = object.label
        /\ 5 * AreaInRow(object.bounding_box, rows[k]) > QuadArea(object.bounding_box)

HasBox(object, box) == vertices_to_AABB(object.bounding_box) = box

RECURSIVE SumOf(_, _)
SumOf(numbers, k) == IF k = 0 THEN 0 ELSE numbers[k] + SumOf(numbers, k - 1)

\* Over the images processed: detections marked correct, and the others.
TallyCorrect == SumOf([i \in DOMAIN tally |-> tally[i].correct], Len(tally))
TallyWrong ==
    SumOf([i \in DOMAIN tally |-> tally[i].detections - tally[i].correct],
          Len(tally))

\* Image A: 2 ground-truth rows, 1 detection, correct.  Image B: 1 row,
\* 2 detections, 1 correct.
AggregateScenario ==
    tally = << [rows |-> 2, detections |-> 1, correct |-> 1],
               [rows |-> 1, detections |-> 2, correct |-> 1] >>

\* C4: the returned record holds the number of detections marked correct,
\* the number of ground-truth rows, the number of detections not marked
\* correct, the number of distinct images, and the two quotients; in the
\* two-image scenario that is 3, 2, 1, 2, 2/3 and 1/2.
C4_AggregateCounts ==
    vpc = "done" =>
        /\ summary.true_positives = TallyCorrect
        /\ summary.actual_positives = Len(metadata)
        /\ summary.false_positives = TallyWrong
        /\ summary.image_count =
               Cardinality({metadata[k].image_file : k \in DOMAIN metadata})
        /\ Len(tally) = summary.image_count
        /\ summary.true_positive_ratio =
               [kind |-> "ratio", num |-> summary.true_positives,
                den |-> summary.actual_positives]
        /\ summary.false_positives_per_image =
               [kind |-> "ratio", num |-> summary.false_positives,
                den |-> summary.image_count]
        /\ AggregateScenario =>
               /\ summary.actual_positives = 3
               /\ summary.true_positives = 2
               /\ summary.false_positives = 1
               /\ summary.image_count = 2
               /\ 3 * summary.true_positive_ratio.num
                      = 2 * summary.true_positive_ratio.den
               /\ 2 * summary.false_positives_per_image.num
                      = summary.false_positives_per_image.den

\* C4 witness: the two-image scenario, returned.
C4_Witness == vpc = "done" /\ AggregateScenario

\* C7: with no image or no ground-truth row study_matches raises and returns
\* no record; a returned record holds two finite quotients.
C7_ZeroCountsRaise ==
    /\ (vpc \in {"done", "raised"}
            /\ (image_count.v = 0 \/ actual_positives.v = 0)) =>
           /\ vpc = "raised"
           /\ verror = "ZeroDivisionError"
           /\ summary = NoSummary
    /\ vpc = "done" =>
           /\ summary.true_positive_ratio.kind = "ratio"
           /\ summary.false_positives_per_image.kind = "ratio"

\* C7 witness: an empty table, and study_matches has raised.
C7_Witness ==
    /\ vpc = "raised"
    /\ metadata = <<>>
    /\ image_count.v = 0

\* ------------------------------------------------------------------------
\* Properties of the accepted list (Spec)
\* ------------------------------------------------------------------------
\* C13: the list a detect_objects pass holds, and returns, is a fixed point
\* of the overlap dedup: fed through it again, every element is accepted and
\* the result is the same list, same elements in the same order.
C13_DedupIdempotent ==
    pc \in {"detect", "returned"} =>
        OverlapDedup(detected_objects) = detected_objects

\* C13 witness: a returned list of two detections with intersecting boxes,
\* from a pass that rejected a candidate for overlap.
C13_Witness ==
    /\ pc = "returned"
    /\ Len(detected_objects) = 2
    /\ CommonCells(detected_objects[1].bounding_box,
                   detected_objects[2].bounding_box) > 0
    /\ rejected_in_cluster

\* Every later detection of the list intersects every earlier one in at most
\* half of the earlier one's box, counted in unit cells.
PairwiseAtMostHalf(list) ==
    \A i, j \in DOMAIN list :
        i < j => 2 * CommonCells(list[j].bounding_box, list[i].bounding_box)
                     <= Cardinality(CellsOf(list[i].bounding_box))

\* A step inside a pass keeps the list or appends one detection to it.
KeptOrAppended ==
    pc = "detect" =>
        /\ Len(detected_objects') \in {Len(detected_objects),
                                       Len(detected_objects) + 1}
        /\ SubSeq(detected_objects', 1, Len(detected_objects)) = detected_objects

\* C16: at every point of a pass and in the returned list, for positions
\* i < j the boxes of detections j and i intersect in at most 50% of the box
\* area of detection i; within a pass the list only grows by appending.
C16_AcceptedListInvariant ==
    /\ [](pc \in {"detect", "returned"} => PairwiseAtMostHalf(detected_objects))
    /\ [][KeptOrAppended]_vars

\* C16 witness: a returned list whose second box covers exactly half of the
\* first one's box.
C16_Witness ==
    /\ pc = "returned"
    /\ Len(detected_objects) = 2
    /\ 2 * CommonCells(detected_objects[2].bounding_box,
                       detected_objects[1].bounding_box)
           = Cardinality(CellsOf(detected_objects[1].bounding_box))

\* ------------------------------------------------------------------------
\* Properties of the template registry (Spec)
\* ------------------------------------------------------------------------
\* old is the beginning of new.
IsPrefix(old, new) ==
    /\ Len(old) <= Len(new)
    /\ SubSeq(new, 1, Len(old)) = old

\* A step of a detect_objects call: from its start to the caller's getting
\* the result or the exception.
InDetectCall == pc # "idle" \/ pc' # "idle"

RegistryStep ==
    /\ InDetectCall => templates' = templates /\ labels' = labels
    /\ IsPrefix(templates, templates')
    /\ IsPrefix(labels, labels')

\* C15: no step of a detect_objects call, whatever the image and the outcome,
\* changes templates or labels; add_template leaves every entry registered
\* earlier in place and unchanged, it only appends.
C15_RegistryAppendOnly == [][RegistryStep]_vars

\* C15 witness: two different templates were registered one after the other
\* and a detect_objects call has returned detections; the registry holds the
\* first template's entries followed by the second's.
C15_Witness ==
    /\ pc = "returned"
    /\ Len(detected_objects) > 0
    /\ Len(registered) = 2
    /\ registered[1] # registered[2]
    /\ templates = add_template_entries(registered[1].image)
                       \o add_template_entries(registered[2].image)
    /\ labels = <<registered[1].label, registered[1].label,
                  registered[2].label, registered[2].label>>

\* ------------------------------------------------------------------------
\* Properties of validate_detected_objects across detections (SpecValidation)
\* ------------------------------------------------------------------------
\* The mark validate_detected_objects gives to object when it is the only
\* detection handed in.
MarkAlone(object, rows) == validate_detected_objects(rows, <<object>>)[1]

\* The detections marked correct for the image processed last.
MarkedCorrect == {io \in DOMAIN correct_matches : correct_matches[io]}

\* C14: the mark of each detection is the mark it gets alone, whatever other
\* detections are in the list and whatever rows they matched; no row is used
\* up, so one row can mark several detections and the detections marked
\* correct for an image can outnumber its ground-truth rows.
C14_NoOneToOneAssignment ==
    tally # <<>> =>
        /\ \A io \in DOMAIN image_detected :
               correct_matches[io] = MarkAlone(image_detected[io], image_metadata)
        /\ \A io, jo \in DOMAIN image_detected :
               image_detected[io] = image_detected[jo]
                   => correct_matches[io] = correct_matches[jo]

\* C14 witness: an image with a single ground-truth row and two different
\* detections, both marked correct by that row.
C14_Witness ==
    /\ tally # <<>>
    /\ Len(image_metadata) = 1
    /\ Len(image_detected) = 2
    /\ image_detected[1] # image_detected[2]
    /\ Cardinality(MarkedCorrect) = 2
    /\ Cardinality(MarkedCorrect) > Len(image_metadata)
    /\ \A io \in DOMAIN image_detected :
           5 * AreaInRow(image_detected[io].bounding_box, image_metadata[1])
               > QuadArea(image_detected[io].bounding_box)

\* ------------------------------------------------------------------------
\* Properties of verify_non_overlapping under containment (SpecOverlap)
\* ------------------------------------------------------------------------
LowOf(quad, axis) == SetMin({quad[i][axis] : i \in DOMAIN quad})
HighOf(quad, axis) == SetMax({quad[i][axis] : i \in DOMAIN quad})

\* The axis-aligned box of inner lies inside the axis-aligned box of outer.
BoxWithin(inner, outer) ==
    \A axis \in {1, 2} :
        /\ LowOf(outer, axis) <= LowOf(inner, axis)
        /\ HighOf(inner, axis) <= HighOf(outer, axis)

CellCount(quad) == Cardinality(CellsOf(quad))

\* C17: a candidate whose box contains the box, of positive area, of an
\* accepted detection is rejected; a candidate whose box lies inside an
\* accepted detection's box and has at most half its area is not rejected
\* on account of that detection.  With a single accepted detection: the
\* smaller of two nested boxes is accepted after the larger when it has at
\* most half its area, the larger is rejected after the smaller.
C17_ContainmentAsymmetry ==
    verify_result.kind = "bool" =>
        LET list == verify_args.detected_objects
            candidate == verify_args.new_object.bounding_box
            accepted == verify_result.value
        IN  /\ (\E k \in DOMAIN list :
                   /\ CellCount(list[k].bounding_box) > 0
                   /\ BoxWithin(list[k].bounding_box, candidate))
                   => ~accepted
            /\ \A k \in DOMAIN list :
                   (/\ BoxWithin(candidate, list[k].bounding_box)
                    /\ 2 * CellCount(candidate) <= CellCount(list[k].bounding_box)
                    /\ ~accepted)
                   => \E other \in DOMAIN list \ {k} :
                          2 * CommonCells(candidate, list[other].bounding_box)
                              > CellCount(list[other].bounding_box)
            /\ (/\ Len(list) = 1
                /\ BoxWithin(candidate, list[1].bounding_box)
                /\ 2 * CellCount(candidate) <= CellCount(list[1].bounding_box))
                   => accepted

\* C17 witness: a candidate rejected after a single accepted detection whose
\* box, of positive area, lies inside the candidate's and has at most half
\* its area (the other way round the smaller one would be accepted).
C17_Witness ==
    /\ verify_result.kind = "bool"
    /\ ~verify_result.value
    /\ Len(verify_args.detected_objects) = 1
    /\ LET small == verify_args.detected_objects[1].bounding_box
           large == verify_args.new_object.bounding_box
       IN  /\ CellCount(small) > 0
           /\ BoxWithin(small, large)
           /\ 2 * CellCount(small) <= CellCount(large)

\* ------------------------------------------------------------------------
\* Properties of repeated calls (SpecRepeat)
\* ------------------------------------------------------------------------
\* The call under way, now over, is on the image and with the registry of
\* the call the caller kept.
SameCallAsRemembered ==
    /\ pc \in {"returned", "raised"}
    /\ remembered.kind = "call"
    /\ remembered.image = keypoints
    /\ remembered.templates = templates
    /\ remembered.labels = labels

\* C11: with deterministic libraries, a detect_objects call on the image and
\* with the registry of an earlier call ends as that call did, with the same
\* list in the same order (or the same exception), whatever was processed in
\* between; a pass starts from an empty list, and a candidate is rejected
\* only on account of a detection accepted in the same pass.
C11_RepeatedCallsAgree ==
    /\ SameCallAsRemembered => Outcome = remembered.outcome
    /\ (pc = "detect" /\ last = NoAttempt) => detected_objects = <<>>
    /\ (pc = "detect" /\ last.verdict = "overlap")
           => CoversHalfOfSome(last.out.box, detected_objects)

\* C11 witness: a call returned detections for the image and the registry of
\* the kept call, after a call on another image returned a detection whose
\* box the first candidate covers by more than half.
C11_Witness ==
    /\ SameCallAsRemembered
    /\ pc = "returned"
    /\ detected_objects # <<>>
    /\ between.kind = "list"
    /\ between.list # <<>>
    /\ CoversHalfOfSome(detected_objects[1].bounding_box, between.list)

\* The box the libraries give for the template image, if they give one.
OracleGivesBox(image) ==
    get_matching_boundingbox(oracle[image].matches, oracle[image].H,
                             MIN_MATCHES, {MIN_INLIERS}).out.kind = "Quad"

OracleBox(image) == oracle[image].H.M.dst

\* Each of the two boxes covers more than half of the other.
MutuallyOverlapping(q1, q2) ==
    /\ 2 * CommonCells(q1, q2) > CellCount(q1)
    /\ 2 * CommonCells(q1, q2) > CellCount(q2)

\* Two different templates are registered, and on the target image both
\* give boxes, each covering more than half of the other.
TwoRivalTemplates ==
    /\ Len(registered) = 2
    /\ registered[1] # registered[2]
    /\ OracleGivesBox(registered[1].image)
    /\ OracleGivesBox(registered[2].image)
    /\ MutuallyOverlapping(OracleBox(registered[1].image),
                           OracleBox(registered[2].image))

\* C12: of two templates whose matches on an image cover each other by more
\* than half, detect_objects keeps the match of the one registered first,
\* with its label, and not the other's; so the two registration orders, both
\* reachable with the same libraries, keep different matches.
C12_FirstRegisteredWins ==
    (pc = "returned" /\ keypoints # <<>> /\ TwoRivalTemplates) =>
        /\ detected_objects =
               << DetectedObject(registered[1].label,
                                 OracleBox(registered[1].image)) >>
        /\ \A k \in DOMAIN detected_objects :
               detected_objects[k].label # registered[2].label

\* C12 witness: Ferrari registered before Adidas, their boxes different and
\* covering each other by more than half, two clusters; the returned list is
\* the Ferrari match alone (Adidas first keeps the Adidas match alone).
C12_Witness ==
    /\ pc = "returned"
    /\ TwoRivalTemplates
    /\ Len(keypoints) = 2
    /\ registered[1].label = "Ferrari"
    /\ registered[2].label = "Adidas"
    /\ OracleBox(registered[1].image) # OracleBox(registered[2].image)
    /\ detected_objects =
           << DetectedObject("Ferrari", OracleBox(registered[1].image)) >>

====
